---- MODULE Spec2Model ----
(***************************************************************************)
(* Model of w1r3.cc, the C++ write-1-read-3 storage benchmark.             *)
(*                                                                         *)
(*   Spec      main() and the worker threads it spawns: make_clients, the  *)
(*             spawn loop, the jthread joins, and the worker loop with     *)
(*             its upload, three downloads, DeleteObject and spans.        *)
(*   SpecHist  make_meter_provider(): the three histogram boundary         *)
(*             generators, one loop iteration per step.                    *)
(*                                                                         *)
(* The storage service, the tracer and the meters are collaborators: what  *)
(* a worker does to them in its current iteration is kept, in order, in    *)
(* log[w].  A storage call returns either an ok or an error status, chosen *)
(* nondeterministically.                                                   *)
(***************************************************************************)
EXTENDS Integers, Sequences, FiniteSets

(* Bound of the model, on the size of a run: the number of its workers    *)
(* times the iterations of each times the transports it names.             *)
MaxWork == 2

Threads == 1..MaxWork

VARIABLES
  vm,           \* parsed command line: transports, workers, iterations
  cfg,          \* config: clients (keys of the map), iterations
  main_pc,      \* position of main()
  main_i,       \* loop index i of the spawn loop in main()
  workers,      \* std::vector<std::jthread> workers
  exit_status,  \* value main() returned
  pc,           \* pc[w]: position of worker thread w
  i,            \* i[w]: loop index of the worker loop
  started,      \* started[w]: iterations thread w has entered
  client,       \* client[w]: transport picked for the current iteration
  op,           \* op[w]: index into ReadOps of the next download
  log,          \* log[w]: effects of the current iteration, in order
  hist_pc,      \* position inside make_meter_provider()
  hist_i,       \* loop index i of the running boundary generator
  boundary,     \* local `boundary` of the running generator
  increment,    \* local `increment` of the running generator
  boundaries,   \* local `boundaries` of the running generator
  views,        \* boundaries handed to add_histogram_view, by histogram
  up_pc,        \* position inside the uploader that is running
  up_args,      \* its arguments: uploader name, object_size, buffer.size()
  offset,       \* local `offset` of write_object
  os,           \* the ObjectWriteStream of write_object
  inserts,      \* lengths of the data given to client.InsertObject
  status,       \* the status the uploader returned
  allocated_bytes,  \* std::atomic<std::uint64_t> allocated_bytes
  clock,        \* std::chrono::steady_clock::now(), in nanoseconds
  cpu_time,     \* user + system time of getrusage(RUSAGE_SELF), nanoseconds
  t,            \* t[w]: the `usage t` thread w holds, if any
  sample,       \* sample[w]: what w's usage::record gave the histograms
  data,         \* the contents of *data, the buffer all workers share
  object_sizes, \* cfg.object_sizes, as given to --object-sizes
  it_pc,        \* position of the thread whose iteration data is followed
  it_i,         \* its loop index i
  it_op,        \* its index into ReadOps of the next download
  picked,       \* its locals object_name, object_size, client, uploader
  uses          \* the arguments of its calls and samples, this iteration

mvars == <<vm, cfg, main_pc, main_i, workers, exit_status>>
wvars == <<pc, i, started, client, op, log>>
hvars == <<hist_pc, hist_i, boundary, increment, boundaries, views>>
uvars == <<up_pc, up_args, offset, os, inserts, status>>
svars == <<allocated_bytes, clock, cpu_time, t, sample, data>>
ivars == <<object_sizes, it_pc, it_i, it_op, picked, uses>>
vars == <<vm, cfg, main_pc, main_i, workers, exit_status,
          pc, i, started, client, op, log,
          hist_pc, hist_i, boundary, increment, boundaries, views,
          up_pc, up_args, offset, os, inserts, status,
          allocated_bytes, clock, cpu_time, t, sample, data,
          object_sizes, it_pc, it_i, it_op, picked, uses>>

(* What the run of main and the workers leaves alone, and what the         *)
(* boundary generators leave alone.                                        *)
outside_run == <<hvars, uvars, svars, ivars>>
outside_hist == <<mvars, wvars, uvars, svars, ivars>>

----------------------------------------------------------------------------
(* Command line and configuration.                                         *)

kTransportJson == "JSON"
kTransportGrpc == "GRPC+CFE"
kTransportDirectPath == "GRPC+DP"

(* Names a user may give to --transports: the three known ones and one     *)
(* that make_clients does not know.                                        *)
TransportNames == {kTransportJson, kTransportGrpc, kTransportDirectPath, "XML"}

RECURSIVE SeqsUpTo(_, _)
SeqsUpTo(S, n) ==
  IF n = 0 THEN {<<>>}
  ELSE LET shorter == SeqsUpTo(S, n - 1)
       IN shorter \cup {Append(s, x) : s \in shorter, x \in S}

(* --transports is multitoken: it carries at least one name. *)
TransportLists == SeqsUpTo(TransportNames, MaxWork) \ {<<>>}

(* The branch of make_clients that creates a client for `name`. *)
KnownTransport(name) ==
  \/ name = kTransportJson
  \/ name = kTransportGrpc
  \/ name = kTransportDirectPath

(* Faulty variant of make_clients_loop: an unknown name is skipped, not thrown. *)
RECURSIVE make_clients_skip_unknown(_, _)
make_clients_skip_unknown(names, clients) ==
  IF names = <<>> THEN [threw |-> FALSE, clients |-> clients]
  ELSE IF KnownTransport(Head(names))
       THEN make_clients_skip_unknown(Tail(names), clients \cup {Head(names)})
       ELSE make_clients_skip_unknown(Tail(names), clients)

(* The loop of make_clients over get_transports(vm): emplace a client per  *)
(* known name (std::map keeps one entry per key), throw at the first       *)
(* unknown one.                                                            *)
RECURSIVE make_clients_loop(_, _)
make_clients_loop(names, clients) ==
  IF names = <<>> THEN [threw |-> FALSE, clients |-> clients]
  ELSE IF KnownTransport(Head(names))
       THEN make_clients_loop(Tail(names), clients \cup {Head(names)})
       ELSE [threw |-> TRUE, clients |-> {}]

make_clients(names) == make_clients_loop(names, {})

----------------------------------------------------------------------------
(* Effects on the collaborators.  `on` names the span or the operation:    *)
(* "ssb::iteration", "ssb::upload", or the download's ssb.op attribute.    *)

(* Faulty variant of ReadOps: the object is read twice. *)
ReadOpsTwo == <<"READ[0]", "READ[1]">>

(* The initializer list of the download loop. *)
ReadOps == <<"READ[0]", "READ[1]", "READ[2]">>

Ev(ev, on, arg) == [ev |-> ev, on |-> on, arg |-> arg]
StartSpan(on) == Ev("StartSpan", on, "-")
SetStatus(on) == Ev("SetStatus", on, "kError")
End(on) == Ev("End", on, "-")
Record(on, histogram) == Ev("Record", on, histogram)
Call(on, ok) == Ev("Call", on, IF ok THEN "ok" ELSE "error")

(* Faulty variant of usage_record: the memory histogram is not fed. *)
usage_record_no_memory(span) ==
  <<Record(span, "latency"), Record(span, "cpu"), End(span)>>

(* usage::record: one sample in each histogram, then span->End(). *)
usage_record(span) ==
  <<Record(span, "latency"), Record(span, "cpu"), Record(span, "memory"),
    End(span)>>

(* Faulty variant of span_error: the span is marked but not ended. *)
span_error_no_end(span) == <<SetStatus(span)>>

(* The error branch of an upload or a download. *)
span_error(span) == <<SetStatus(span), End(span)>>

----------------------------------------------------------------------------
(* The worker thread.                                                      *)

(* Faulty variant of UploadNext: a failed upload falls through to the downloads. *)
UploadNextFallThrough(ok) == "download"

(* Faulty variant of UploadNext: a failed upload returns from worker(). *)
UploadNextReturn(ok) == IF ok THEN "download" ELSE "done"

(* Where the worker goes after the upload: `continue` of the iteration     *)
(* loop on an error status, the download loop otherwise.                   *)
UploadNext(ok) == IF ok THEN "download" ELSE "loop"

(* Faulty variant of DownloadNext: a failed download goes to the delete. *)
DownloadNextEarlyDelete(ok, k) ==
  IF ~ok \/ k + 1 = Len(ReadOps) THEN "delete" ELSE "download"

(* Where the worker goes after download k: the `continue` of the error     *)
(* branch is inside the range-for over the READ ops, so with or without an *)
(* error the range-for moves on to its next element, and past the last one *)
(* to DeleteObject.                                                        *)
DownloadNext(ok, k) ==
  IF k + 1 = Len(ReadOps) THEN "delete" ELSE "download"

(* Moving to the loop head is the ++i of the for statement. *)
Goto(w, next) ==
  /\ pc' = [pc EXCEPT ![w] = next]
  /\ i' = [i EXCEPT ![w] = IF next = "loop" THEN @ + 1 ELSE @]

(* i == cfg.iterations: worker() returns; its locals are gone. *)
WorkerReturn(w) ==
  /\ pc[w] = "loop"
  /\ i[w] = cfg.iterations
  /\ pc' = [pc EXCEPT ![w] = "done"]
  /\ log' = [log EXCEPT ![w] = <<>>]
  /\ client' = [client EXCEPT ![w] = "none"]
  /\ UNCHANGED <<i, started, op>>
  /\ UNCHANGED mvars /\ UNCHANGED outside_run

(* i != cfg.iterations: the loop body is entered.  The workload is picked, *)
(* the iteration span started, then the upload block runs: span, uploader  *)
(* call, and the error branch or usage::record.                            *)
Upload(w) ==
  /\ pc[w] = "loop"
  /\ i[w] /= cfg.iterations
  /\ \E c \in cfg.clients : client' = [client EXCEPT ![w] = c]
  /\ started' = [started EXCEPT ![w] = @ + 1]
  /\ \E ok \in BOOLEAN :
       /\ log' = [log EXCEPT ![w] =
                    <<StartSpan("ssb::iteration"),
                      StartSpan("ssb::upload"), Call("upload", ok)>>
                    \o (IF ok THEN usage_record("ssb::upload")
                              ELSE span_error("ssb::upload"))]
       /\ Goto(w, UploadNext(ok))
  /\ op' = [op EXCEPT ![w] = 0]
  /\ UNCHANGED mvars /\ UNCHANGED outside_run

(* Faulty variant of Download: a failed read_object is called again. *)
DownloadRetry(w) ==
  /\ pc[w] = "download"
  /\ op[w] < Len(ReadOps)
  /\ LET name == ReadOps[op[w] + 1] IN
     \E ok \in BOOLEAN :
       /\ log' = [log EXCEPT ![w] =
                    @ \o <<StartSpan(name), Call(name, ok)>>
                      \o (IF ok THEN usage_record(name) ELSE <<>>)]
       /\ IF ok THEN /\ Goto(w, DownloadNext(ok, op[w]))
                     /\ op' = [op EXCEPT ![w] = @ + 1]
                ELSE UNCHANGED <<pc, i, op>>
  /\ UNCHANGED <<started, client>>
  /\ UNCHANGED mvars /\ UNCHANGED outside_run

(* One pass of the range-for over the READ ops: span, read_object, then    *)
(* the error branch or usage::record.                                      *)
Download(w) ==
  /\ pc[w] = "download"
  /\ op[w] < Len(ReadOps)
  /\ LET name == ReadOps[op[w] + 1] IN
     \E ok \in BOOLEAN :
       /\ log' = [log EXCEPT ![w] =
                    @ \o <<StartSpan(name), Call(name, ok)>>
                      \o (IF ok THEN usage_record(name) ELSE span_error(name))]
       /\ Goto(w, DownloadNext(ok, op[w]))
  /\ op' = [op EXCEPT ![w] = @ + 1]
  /\ UNCHANGED <<started, client>>
  /\ UNCHANGED mvars /\ UNCHANGED outside_run

(* Faulty variant of DeleteObject: a failed delete marks the iteration     *)
(* span and ends the worker.                                               *)
DeleteObjectEscalates(w) ==
  /\ pc[w] = "delete"
  /\ \E ok \in BOOLEAN :
       /\ log' = [log EXCEPT ![w] =
                    @ \o <<Call("DeleteObject", ok)>>
                      \o (IF ok THEN <<>> ELSE <<SetStatus("ssb::iteration")>>)
                      \o <<End("ssb::iteration")>>]
       /\ Goto(w, "loop")
  /\ UNCHANGED <<started, client, op>>
  /\ UNCHANGED mvars /\ UNCHANGED outside_run

(* The end of the loop body: (void)client.second.DeleteObject(...), whose  *)
(* status is dropped, then iteration_span->End(), then the ++i.            *)
DeleteObject(w) ==
  /\ pc[w] = "delete"
  /\ \E ok \in BOOLEAN :
       log' = [log EXCEPT ![w] =
                 @ \o <<Call("DeleteObject", ok), End("ssb::iteration")>>]
  /\ Goto(w, "loop")
  /\ UNCHANGED <<started, client, op>>
  /\ UNCHANGED mvars /\ UNCHANGED outside_run

----------------------------------------------------------------------------
(* main().                                                                 *)

(* Faulty variant of Joinable: the thread is not waited for. *)
JoinableDetached(w) == TRUE

(* ~jthread joins: it returns once the thread has returned. *)
Joinable(w) == pc[w] = "done"

(* The config initializer runs make_clients(vm); its exception leaves main *)
(* through the function-try-block handler.                                 *)
MainConfig ==
  /\ main_pc = "config"
  /\ LET made == make_clients(vm.transports) IN
       IF made.threw
       THEN /\ main_pc' = "exit"
            /\ exit_status' = "EXIT_FAILURE"
            /\ UNCHANGED cfg
       ELSE /\ cfg' = [clients |-> made.clients, iterations |-> vm.iterations]
            /\ main_pc' = "spawn"
            /\ UNCHANGED exit_status
  /\ UNCHANGED <<vm, main_i, workers>>
  /\ UNCHANGED wvars /\ UNCHANGED outside_run

(* for (int i = 0; i != worker_count; ++i) workers.push_back(jthread). *)
MainSpawn ==
  /\ main_pc = "spawn"
  /\ main_i /= vm.workers
  /\ LET w == main_i + 1 IN
       /\ workers' = Append(workers, w)
       /\ pc' = [pc EXCEPT ![w] = "loop"]
  /\ main_i' = main_i + 1
  /\ UNCHANGED <<vm, cfg, main_pc, exit_status>>
  /\ UNCHANGED <<i, started, client, op, log>> /\ UNCHANGED outside_run

(* return EXIT_SUCCESS, past the spawn loop: the locals are destroyed      *)
(* before main returns, and ~vector<jthread> joins every thread, so the    *)
(* return waits until each of them has finished.                           *)
MainReturn ==
  /\ main_pc = "spawn"
  /\ main_i = vm.workers
  /\ \A k \in 1..Len(workers) : Joinable(workers[k])
  /\ workers' = <<>>
  /\ main_pc' = "exit"
  /\ exit_status' = "EXIT_SUCCESS"
  /\ UNCHANGED <<vm, cfg, main_i>>
  /\ UNCHANGED wvars /\ UNCHANGED outside_run

----------------------------------------------------------------------------
(* make_meter_provider(): the histogram boundaries.                        *)
(*                                                                         *)
(* A value of the program is kept as an exact fraction num/den.  A         *)
(* std::chrono::milliseconds holds an integer count of 1/1000 s.  The      *)
(* doubles of the CPU and memory generators are multiples of 1/8 and 1/16  *)
(* far below 2^53, so their sums and doublings are exact in binary         *)
(* floating point.                                                         *)

Frac(num, den) == [num |-> num, den |-> den]
Plus(a, b) == Frac(a.num + b.num, a.den)     \* a and b have the same den
Twice(a) == Frac(2 * a.num, a.den)
Less(a, b) == a.num * b.den < b.num * a.den
LessEq(a, b) == a.num * b.den <= b.num * a.den

ms(n) == Frac(n, 1000)
seconds(n) == Frac(n, 1)

(* duration_cast<dseconds>(boundary).count(): the milliseconds as a        *)
(* double number of seconds.  Distinct counts below 2^53 stay distinct and *)
(* ordered after the division by 1000.                                     *)
dseconds(d) == Frac(d.num, d.den)

LatencyFirstBuckets == 50
LatencySecondBuckets == 150
LatencyLimitSeconds == 300
LatencyDoubleEvery == 10
CpuBuckets == 200
CpuDoubleEvery == 32
MemoryBuckets == 200
MemoryDoubleEvery == 16

(* Faulty variant of LatencyContinue: the 300 s limit is not tested. *)
LatencyContinueNoLimit(k, b) == k /= LatencySecondBuckets

(* The condition of the second latency loop. *)
LatencyContinue(k, b) ==
  k /= LatencySecondBuckets /\ LessEq(b, seconds(LatencyLimitSeconds))

(* Faulty variant of CpuContinue: the loop runs one pass more. *)
CpuContinueInclusive(k) == k /= CpuBuckets + 1

(* The condition of the CPU loop. *)
CpuContinue(k) == k /= CpuBuckets

(* The condition of the memory loop. *)
MemoryContinue(k) == k /= MemoryBuckets

(* Faulty variant of Doubled: the pass i = 0 doubles too. *)
DoubledFromZero(k, n, inc) == IF k % n = 0 THEN Twice(inc) ELSE inc

(* if (i != 0 && i % n == 0) increment *= 2 *)
Doubled(k, n, inc) == IF k /= 0 /\ k % n = 0 THEN Twice(inc) ELSE inc

(* First latency loop: 2 ms buckets. *)
LatencyFirstLoop ==
  /\ hist_pc = "latency_first"
  /\ hist_i /= LatencyFirstBuckets
  /\ boundaries' = Append(boundaries, dseconds(boundary))
  /\ boundary' = Plus(boundary, increment)
  /\ hist_i' = hist_i + 1
  /\ UNCHANGED <<hist_pc, increment, views>>
  /\ UNCHANGED outside_hist

(* boundary = 100ms; increment = 10ms; and the second loop starts. *)
LatencySecondBegin ==
  /\ hist_pc = "latency_first"
  /\ hist_i = LatencyFirstBuckets
  /\ boundary' = ms(100)
  /\ increment' = ms(10)
  /\ hist_i' = 0
  /\ hist_pc' = "latency_second"
  /\ UNCHANGED <<boundaries, views>>
  /\ UNCHANGED outside_hist

(* Second latency loop: the increment doubles every 10 buckets. *)
LatencySecondLoop ==
  /\ hist_pc = "latency_second"
  /\ LatencyContinue(hist_i, boundary)
  /\ boundaries' = Append(boundaries, dseconds(boundary))
  /\ increment' = Doubled(hist_i, LatencyDoubleEvery, increment)
  /\ boundary' = Plus(boundary, increment')
  /\ hist_i' = hist_i + 1
  /\ UNCHANGED <<hist_pc, views>>
  /\ UNCHANGED outside_hist

(* make_latency_histogram_boundaries returns; its result becomes the view  *)
(* of the latency histogram, and make_cpu_histogram_boundaries starts.     *)
LatencyReturn ==
  /\ hist_pc = "latency_second"
  /\ ~LatencyContinue(hist_i, boundary)
  /\ views' = [views EXCEPT !.latency = boundaries]
  /\ boundaries' = <<>>
  /\ boundary' = Frac(0, 8)
  /\ increment' = Frac(1, 8)
  /\ hist_i' = 0
  /\ hist_pc' = "cpu"
  /\ UNCHANGED outside_hist

(* Faulty variant of CpuLoop: the increment is added before it is doubled. *)
CpuLoopAddFirst ==
  /\ hist_pc = "cpu"
  /\ CpuContinue(hist_i)
  /\ boundaries' = Append(boundaries, boundary)
  /\ boundary' = Plus(boundary, increment)
  /\ increment' = Doubled(hist_i, CpuDoubleEvery, increment)
  /\ hist_i' = hist_i + 1
  /\ UNCHANGED <<hist_pc, views>>
  /\ UNCHANGED outside_hist

(* The CPU loop: the increment is doubled before it is added. *)
CpuLoop ==
  /\ hist_pc = "cpu"
  /\ CpuContinue(hist_i)
  /\ boundaries' = Append(boundaries, boundary)
  /\ increment' = Doubled(hist_i, CpuDoubleEvery, increment)
  /\ boundary' = Plus(boundary, increment')
  /\ hist_i' = hist_i + 1
  /\ UNCHANGED <<hist_pc, views>>
  /\ UNCHANGED outside_hist

(* make_cpu_histogram_boundaries returns; the memory generator starts. *)
CpuReturn ==
  /\ hist_pc = "cpu"
  /\ ~CpuContinue(hist_i)
  /\ views' = [views EXCEPT !.cpu = boundaries]
  /\ boundaries' = <<>>
  /\ boundary' = Frac(0, 16)
  /\ increment' = Frac(1, 16)
  /\ hist_i' = 0
  /\ hist_pc' = "memory"
  /\ UNCHANGED outside_hist

(* The memory loop: the increment is added before it is doubled. *)
MemoryLoop ==
  /\ hist_pc = "memory"
  /\ MemoryContinue(hist_i)
  /\ boundaries' = Append(boundaries, boundary)
  /\ boundary' = Plus(boundary, increment)
  /\ increment' = Doubled(hist_i, MemoryDoubleEvery, increment)
  /\ hist_i' = hist_i + 1
  /\ UNCHANGED <<hist_pc, views>>
  /\ UNCHANGED outside_hist

(* make_memory_histogram_boundaries returns; the provider is complete. *)
MemoryReturn ==
  /\ hist_pc = "memory"
  /\ ~MemoryContinue(hist_i)
  /\ views' = [views EXCEPT !.memory = boundaries]
  /\ boundaries' = <<>>
  /\ hist_pc' = "done"
  /\ UNCHANGED <<hist_i, boundary, increment>>
  /\ UNCHANGED outside_hist

----------------------------------------------------------------------------
(* The upload strategies of make_uploaders.                                *)

kSingleShot == "SINGLE-SHOT"
kResumable == "RESUMABLE"

(* Bound of the model: the largest object size and buffer length. *)
MaxSize == 3

outside_upload == <<mvars, wvars, hvars, svars, ivars>>

(* Faulty variant of TooLarge: a full buffer is refused too. *)
TooLargeInclusive(object_size, size) ==
  IF object_size < 0 THEN TRUE ELSE object_size >= size

(* object_size > buffer.size(): the int64 is converted to the unsigned     *)
(* type of size(), so a negative object_size compares as a value above any *)
(* length a buffer can have.                                               *)
TooLarge(object_size, size) ==
  IF object_size < 0 THEN TRUE ELSE object_size > size

(* Faulty variant of ChunkSize: always a whole buffer. *)
ChunkSizeWholeBuffer(remaining, size) == size

(* std::min(object_size - offset, buffer.size()) *)
ChunkSize(remaining, size) == IF remaining < size THEN remaining ELSE size

(* The stream before client.WriteObject has returned it.  bad_at keeps the *)
(* number of os.write calls made when the stream went bad, -1 while it is  *)
(* good.                                                                   *)
NoStream ==
  [bad |-> FALSE, bad_at |-> -1, writes |-> <<>>, closed |-> 0,
   status |-> "none"]

(* A stream operation on a good stream leaves it good or turns it bad. *)
StreamAfter(s, goes_bad) ==
  IF goes_bad /\ ~s.bad
  THEN [s EXCEPT !.bad = TRUE, !.bad_at = Len(s.writes)]
  ELSE s

(* insert_object: the size check, then one client.InsertObject with the    *)
(* first object_size bytes of the buffer, whose status is returned.        *)
InsertObject ==
  /\ up_pc = "call"
  /\ up_args.uploader = kSingleShot
  /\ IF TooLarge(up_args.object_size, up_args.size)
     THEN /\ status' = "kInvalidArgument"
          /\ UNCHANGED inserts
     ELSE /\ inserts' = Append(inserts, up_args.object_size)
          /\ status' \in {"ok", "error"}
  /\ up_pc' = "returned"
  /\ UNCHANGED <<up_args, offset, os>>
  /\ UNCHANGED outside_upload

(* write_object, up to its loop: os = client.WriteObject(...), offset = 0. *)
WriteOpen ==
  /\ up_pc = "call"
  /\ up_args.uploader = kResumable
  /\ \E goes_bad \in BOOLEAN : os' = StreamAfter(NoStream, goes_bad)
  /\ offset' = 0
  /\ up_pc' = "writing"
  /\ UNCHANGED <<up_args, inserts, status>>
  /\ UNCHANGED outside_upload

(* One pass of while (offset < object_size && !os.bad()). *)
WriteChunk ==
  /\ up_pc = "writing"
  /\ offset < up_args.object_size /\ ~os.bad
  /\ LET n == ChunkSize(up_args.object_size - offset, up_args.size) IN
       /\ \E goes_bad \in BOOLEAN :
            os' = StreamAfter([os EXCEPT !.writes = Append(@, n)], goes_bad)
       /\ offset' = offset + n
  /\ UNCHANGED <<up_pc, up_args, inserts, status>>
  /\ UNCHANGED outside_upload

(* The loop is left: os.Close(), return os.metadata().status().  A bad     *)
(* stream closes with an error status, a good one with either.             *)
WriteClose ==
  /\ up_pc = "writing"
  /\ ~(offset < up_args.object_size /\ ~os.bad)
  /\ \E final \in (IF os.bad THEN {"error"} ELSE {"ok", "error"}) :
       /\ os' = [os EXCEPT !.closed = @ + 1, !.status = final]
       /\ status' = final
  /\ up_pc' = "returned"
  /\ UNCHANGED <<up_args, offset, inserts>>
  /\ UNCHANGED outside_upload

(* No uploader is running. *)
UploadInit0 ==
  /\ up_pc = "idle"
  /\ up_args = [uploader |-> "none", object_size |-> 0, size |-> 0]
  /\ offset = 0
  /\ os = NoStream
  /\ inserts = <<>>
  /\ status = "none"

----------------------------------------------------------------------------
(* Resource usage: the allocation counter and class usage.                 *)

(* Bounds of the model: the bytes the process allocates, and the           *)
(* nanoseconds the clock and the CPU time advance.                         *)
MaxAlloc == 2
MaxTicks == 1

outside_usage == <<mvars, wvars, hvars, uvars, ivars>>

ns(n) == Frac(n, 1000000000)

(* Faulty variant of scale: never divides. *)
scale_never(object_size, value) == Frac(value, 1)

(* The lambda `scale` of usage::record.  The conversions to double are     *)
(* exact below 2^53, so the quotient is kept as a fraction.                *)
scale(object_size, value) ==
  IF object_size = 0 THEN Frac(value, 1) ELSE Frac(value, object_size)

(* No `usage t` is alive in the thread.  own and since count the bytes the *)
(* thread itself, and any thread, allocated since the snapshot.            *)
NoUsage ==
  [alive |-> FALSE, mem_ |-> 0, clock_ |-> 0, cpu_ |-> 0,
   own |-> 0, since |-> 0]

NoSample ==
  [recorded |-> FALSE, object_size |-> 0,
   latency |-> Frac(0, 1), cpu |-> Frac(0, 1), memory |-> Frac(0, 1),
   elapsed |-> 0, cpu_usage |-> 0, mem_usage |-> 0, own |-> 0, since |-> 0]

(* Faulty variant of fetch_add: the count is stored, not added. *)
fetch_store(counter, count) == count

(* allocated_bytes.fetch_add(count), one atomic step. *)
fetch_add(counter, count) == counter + count

(* operator new, called by thread w for count bytes. *)
Allocate(w, count) ==
  /\ allocated_bytes + count <= MaxAlloc
  /\ allocated_bytes' = fetch_add(allocated_bytes, count)
  /\ t' = [v \in Threads |->
             IF ~t[v].alive THEN t[v]
             ELSE [t[v] EXCEPT !.since = @ + count,
                               !.own = IF v = w THEN @ + count ELSE @]]
  /\ UNCHANGED <<clock, cpu_time, sample, data>>
  /\ UNCHANGED outside_usage

(* The steady clock advances. *)
Tick ==
  /\ clock < MaxTicks
  /\ clock' = clock + 1
  /\ UNCHANGED <<allocated_bytes, cpu_time, t, sample, data>>
  /\ UNCHANGED outside_usage

(* The process consumes CPU time. *)
Burn ==
  /\ cpu_time < MaxTicks
  /\ cpu_time' = cpu_time + 1
  /\ UNCHANGED <<allocated_bytes, clock, t, sample, data>>
  /\ UNCHANGED outside_usage

(* auto const t = usage(): mem_(mem_now()), clock_(now()), cpu_(cpu_now()) *)
(* The sample of the operation before is forgotten.                        *)
UsageStart(w) ==
  /\ ~t[w].alive
  /\ t' = [t EXCEPT ![w] = [alive |-> TRUE, mem_ |-> allocated_bytes,
                            clock_ |-> clock, cpu_ |-> cpu_time,
                            own |-> 0, since |-> 0]]
  /\ sample' = [sample EXCEPT ![w] = NoSample]
  /\ UNCHANGED <<allocated_bytes, clock, cpu_time, data>>
  /\ UNCHANGED outside_usage

(* t.record(cfg, object_size, span, attributes), and the end of t's scope. *)
UsageRecord(w, object_size) ==
  /\ t[w].alive
  /\ LET cpu_usage == cpu_time - t[w].cpu_
         elapsed == clock - t[w].clock_
         mem_usage == allocated_bytes - t[w].mem_
     IN  sample' = [sample EXCEPT ![w] =
                      [recorded |-> TRUE, object_size |-> object_size,
                       latency |-> dseconds(ns(elapsed)),
                       cpu |-> scale(object_size, cpu_usage),
                       memory |-> scale(object_size, mem_usage),
                       elapsed |-> elapsed, cpu_usage |-> cpu_usage,
                       mem_usage |-> mem_usage,
                       own |-> t[w].own, since |-> t[w].since]]
  /\ t' = [t EXCEPT ![w] = NoUsage]
  /\ UNCHANGED <<allocated_bytes, clock, cpu_time, data>>
  /\ UNCHANGED outside_usage

(* The operation failed: `continue` leaves t's scope without a record. *)
UsageDrop(w) ==
  /\ t[w].alive
  /\ t' = [t EXCEPT ![w] = NoUsage]
  /\ UNCHANGED <<allocated_bytes, clock, cpu_time, sample, data>>
  /\ UNCHANGED outside_usage

(* Nothing is measured: the counter at its initializer, no buffer yet. *)
UsageInit0 ==
  /\ allocated_bytes = 0
  /\ clock = 0
  /\ cpu_time = 0
  /\ t = [w \in Threads |-> NoUsage]
  /\ sample = [w \in Threads |-> NoSample]
  /\ data = <<>>

----------------------------------------------------------------------------
(* The data of an iteration: the buffer, the picks, and the arguments of   *)
(* the calls and of the samples.                                           *)

(* Bound of the model: the number of sizes given to --object-sizes. *)
MaxSizes == 2

outside_iter ==
  <<vm, main_pc, main_i, workers, wvars, hvars, uvars,
    allocated_bytes, clock, cpu_time, t, sample>>

(* --object-sizes is multitoken and takes any int64. *)
ObjectSizeLists == SeqsUpTo(-1..MaxSize, MaxSizes) \ {<<>>}

(* vm["bucket"], a required option. *)
bucket_name == "bucket"

(* The keys of the map make_uploaders returns, in the order of the map. *)
make_uploaders == <<kResumable, kSingleShot>>

(* The keys of cfg.clients, in the order of the map. *)
ClientKeys(clients) ==
  SelectSeq(<<kTransportGrpc, kTransportDirectPath, kTransportJson>>,
            LAMBDA name : name \in clients)

(* Faulty variant of max_element: the first size. *)
first_element(s) == s[1]

(* *std::max_element(object_sizes.begin(), object_sizes.end()) *)
RECURSIVE max_element(_)
max_element(s) ==
  IF Len(s) = 1 THEN s[1]
  ELSE LET m == max_element(Tail(s)) IN IF s[1] < m THEN m ELSE s[1]

(* Faulty variant of PickIndexes: the distribution includes size. *)
PickIndexesToSize(collection) == 0..Len(collection)

(* The values of uniform_int_distribution<std::size_t>(0, size - 1). *)
PickIndexes(collection) == 0..(Len(collection) - 1)

(* *std::next(std::begin(collection), index).  Past the last element the   *)
(* read is undefined: `beyond` is what it yields.                          *)
pick_one(collection, index, beyond) ==
  IF index < Len(collection) THEN collection[index + 1] ELSE beyond

(* Faulty variant of ssb_transport: the attribute names the uploader. *)
ssb_transport_uploader(p) == p.uploader

(* {"ssb.transport", client.first} of common_attributes, which with_op     *)
(* copies into the attributes of every span and sample of the iteration.   *)
ssb_transport(p) == p.client

(* A storage call with the client, bucket and object name it is given, and *)
(* a usage::record with the ssb.transport attribute it is given.           *)
StorageCall(name, c, bucket, object_name, st) ==
  [kind |-> "call", op |-> name, transport |-> c, bucket |-> bucket,
   object_name |-> object_name, status |-> st]
UsageSample(name, transport) ==
  [kind |-> "sample", op |-> name, transport |-> transport, bucket |-> "-",
   object_name |-> 0, status |-> "-"]

NoPick == [object_name |-> 0, object_size |-> 0, client |-> "none",
           uploader |-> "none"]

(* What uploader.second(...) can return: insert_object refuses a size its  *)
(* check finds too large for *data, and any other call depends on the      *)
(* service.                                                                *)
UploadStatuses(p) ==
  IF p.uploader = kSingleShot /\ TooLarge(p.object_size, Len(data))
  THEN {"kInvalidArgument"}
  ELSE {"ok", "error"}

(* main from the buffer to the threads: the buffer gets the size of the    *)
(* largest object size, cfg is built, the worker is started.  A negative   *)
(* largest size is converted to a size_t above vector's max_size(): the    *)
(* constructor throws and the handler of main returns EXIT_FAILURE.        *)
MainData ==
  /\ it_pc = "buffer"
  /\ LET data_buffer_size == max_element(object_sizes)
         made == make_clients(vm.transports)
     IN  IF data_buffer_size < 0 \/ made.threw
         THEN /\ it_pc' = "exit"
              /\ exit_status' = "EXIT_FAILURE"
              /\ UNCHANGED <<data, cfg>>
         ELSE /\ data' = [k \in 1..data_buffer_size |-> 0]
              /\ cfg' = [clients |-> made.clients,
                         iterations |-> vm.iterations]
              /\ it_pc' = "loop"
              /\ UNCHANGED exit_status
  /\ UNCHANGED <<object_sizes, it_i, it_op, picked, uses>>
  /\ UNCHANGED outside_iter

(* The loop body up to the end of the upload block: the four picks, then   *)
(* the uploader call on the picked client and, if it succeeds, t.record.   *)
IterUpload ==
  /\ it_pc = "loop"
  /\ it_i /= cfg.iterations
  /\ \E si \in PickIndexes(object_sizes) :
     \E ci \in PickIndexes(ClientKeys(cfg.clients)) :
     \E ui \in PickIndexes(make_uploaders) :
       LET p == [object_name |-> it_i + 1,
                 object_size |-> pick_one(object_sizes, si, MaxSize + 1),
                 client |-> pick_one(ClientKeys(cfg.clients), ci, "?"),
                 uploader |-> pick_one(make_uploaders, ui, "?")]
       IN  /\ picked' = p
           /\ \E st \in UploadStatuses(p) :
                /\ uses' =
                     <<StorageCall("upload", p.client, bucket_name,
                                   p.object_name, st)>>
                     \o (IF st = "ok"
                         THEN <<UsageSample("upload", ssb_transport(p))>>
                         ELSE <<>>)
                /\ it_pc' = UploadNext(st = "ok")
                /\ it_i' = IF st = "ok" THEN it_i ELSE it_i + 1
  /\ it_op' = 0
  /\ UNCHANGED <<object_sizes, data, cfg, exit_status>>
  /\ UNCHANGED outside_iter

(* One pass of the download loop: read_object on the picked client. *)
IterDownload ==
  /\ it_pc = "download"
  /\ it_op < Len(ReadOps)
  /\ LET name == ReadOps[it_op + 1] IN
     \E ok \in BOOLEAN :
       /\ uses' =
            uses \o <<StorageCall(name, picked.client, bucket_name,
                                  picked.object_name,
                                  IF ok THEN "ok" ELSE "error")>>
                 \o (IF ok THEN <<UsageSample(name, ssb_transport(picked))>>
                           ELSE <<>>)
       /\ it_pc' = DownloadNext(ok, it_op)
  /\ it_op' = it_op + 1
  /\ UNCHANGED <<object_sizes, it_i, picked, data, cfg, exit_status>>
  /\ UNCHANGED outside_iter

(* client.second.DeleteObject(cfg.bucket_name, object_name), and the ++i. *)
IterDelete ==
  /\ it_pc = "delete"
  /\ \E ok \in BOOLEAN :
       uses' = Append(uses, StorageCall("DeleteObject", picked.client,
                                        bucket_name, picked.object_name,
                                        IF ok THEN "ok" ELSE "error"))
  /\ it_pc' = "loop"
  /\ it_i' = it_i + 1
  /\ UNCHANGED <<object_sizes, it_op, picked, data, cfg, exit_status>>
  /\ UNCHANGED outside_iter

(* i == cfg.iterations: the worker returns, main joins it and returns. *)
IterReturn ==
  /\ it_pc = "loop"
  /\ it_i = cfg.iterations
  /\ it_pc' = "done"
  /\ exit_status' = "EXIT_SUCCESS"
  /\ UNCHANGED <<object_sizes, it_i, it_op, picked, uses, data, cfg>>
  /\ UNCHANGED outside_iter

(* No iteration data is followed. *)
IterInit0 ==
  /\ object_sizes = <<>>
  /\ it_pc = "idle"
  /\ it_i = 0
  /\ it_op = 0
  /\ picked = NoPick
  /\ uses = <<>>

----------------------------------------------------------------------------
(* Entry of make_latency_histogram_boundaries: boundary = 0ms,             *)
(* increment = 2ms, nothing emitted.                                       *)
HistInit0 ==
  /\ hist_pc = "latency_first"
  /\ hist_i = 0
  /\ boundary = ms(0)
  /\ increment = ms(2)
  /\ boundaries = <<>>
  /\ views = [latency |-> <<>>, cpu |-> <<>>, memory |-> <<>>]

MainInit(inputs) ==
  /\ vm \in inputs
  /\ cfg = [clients |-> {}, iterations |-> 0]
  /\ main_pc = "config"
  /\ main_i = 0
  /\ workers = <<>>
  /\ exit_status = "running"
  /\ pc = [w \in Threads |-> "unspawned"]
  /\ i = [w \in Threads |-> 0]
  /\ started = [w \in Threads |-> 0]
  /\ client = [w \in Threads |-> "none"]
  /\ op = [w \in Threads |-> 0]
  /\ log = [w \in Threads |-> <<>>]

(* The command lines of the model: a non-empty transport list, a worker    *)
(* count and an iteration count, of a size within MaxWork.                 *)
Inputs ==
  {v \in [transports : TransportLists,
          workers : 0..MaxWork,
          iterations : 0..MaxWork] :
     v.workers * v.iterations * Len(v.transports) <= MaxWork}

Init == MainInit(Inputs) /\ HistInit0 /\ UploadInit0 /\ UsageInit0 /\ IterInit0

Next ==
  \/ MainConfig
  \/ MainSpawn
  \/ MainReturn
  \/ \E w \in Threads : WorkerReturn(w)
  \/ \E w \in Threads : Upload(w)
  \/ \E w \in Threads : Download(w)
  \/ \E w \in Threads : DeleteObject(w)

Spec == Init /\ [][Next]_vars

(* The command line that stands for a run where the run is not modelled. *)
DefaultInput ==
  [transports |-> <<kTransportJson>>, workers |-> 1, iterations |-> 1]

(* The boundary generators alone. *)
InitHist ==
  MainInit({DefaultInput}) /\ HistInit0 /\ UploadInit0 /\ UsageInit0 /\ IterInit0

NextHist ==
  \/ LatencyFirstLoop
  \/ LatencySecondBegin
  \/ LatencySecondLoop
  \/ LatencyReturn
  \/ CpuLoop
  \/ CpuReturn
  \/ MemoryLoop
  \/ MemoryReturn

SpecHist == InitHist /\ [][NextHist]_vars

(* One call of an uploader, on any object size the command line can give   *)
(* up to MaxSize (--object-sizes takes any int64, a negative one too) and  *)
(* any buffer of 1 to MaxSize bytes.                                       *)
InitUpload ==
  /\ MainInit({DefaultInput})
  /\ HistInit0
  /\ UsageInit0
  /\ IterInit0
  /\ up_pc = "call"
  /\ up_args \in [uploader : {kSingleShot, kResumable},
                  object_size : -1..MaxSize,
                  size : 1..MaxSize]
  /\ offset = 0
  /\ os = NoStream
  /\ inserts = <<>>
  /\ status = "none"

NextUpload ==
  \/ InsertObject
  \/ WriteOpen
  \/ WriteChunk
  \/ WriteClose

SpecUpload == InitUpload /\ [][NextUpload]_vars

(* The command line of the measurements: every thread of the model. *)
UsageInput ==
  [transports |-> <<kTransportJson>>, workers |-> MaxWork, iterations |-> 1]

(* The state once main has filled the buffer, built cfg and started the    *)
(* vm.workers threads.                                                     *)
UsageInit(input) ==
  /\ vm = input
  /\ cfg = [clients |-> make_clients(vm.transports).clients,
            iterations |-> vm.iterations]
  /\ main_pc = "spawn"
  /\ main_i = vm.workers
  /\ workers = [w \in 1..vm.workers |-> w]
  /\ exit_status = "running"
  /\ pc = [w \in Threads |-> IF w <= vm.workers THEN "loop" ELSE "unspawned"]
  /\ i = [w \in Threads |-> 0]
  /\ started = [w \in Threads |-> 0]
  /\ client = [w \in Threads |-> "none"]
  /\ op = [w \in Threads |-> 0]
  /\ log = [w \in Threads |-> <<>>]
  /\ HistInit0
  /\ UploadInit0
  /\ IterInit0
  /\ allocated_bytes = 0
  /\ clock = 0
  /\ cpu_time = 0
  /\ t = [w \in Threads |-> NoUsage]
  /\ sample = [w \in Threads |-> NoSample]
  /\ data = [k \in 1..MaxSize |-> 0]

(* The workers measure their operations while every one of them allocates. *)
InitUsage == UsageInit(UsageInput)

NextUsage ==
  \/ \E w \in 1..vm.workers : \E count \in 1..MaxAlloc : Allocate(w, count)
  \/ \E w \in 1..vm.workers : UsageStart(w)
  \/ \E w \in 1..vm.workers : \E object_size \in {0, Len(data)} :
       UsageRecord(w, object_size)
  \/ \E w \in 1..vm.workers : UsageDrop(w)

SpecUsage == InitUsage /\ [][NextUsage]_vars

(* One worker measures, on every object size the buffer can hold, while    *)
(* time passes, CPU time is consumed and bytes are allocated.              *)
InitScale == UsageInit(DefaultInput)

NextScale ==
  \/ \E w \in 1..vm.workers : \E count \in 1..MaxAlloc : Allocate(w, count)
  \/ Tick
  \/ Burn
  \/ \E w \in 1..vm.workers : UsageStart(w)
  \/ \E w \in 1..vm.workers : \E object_size \in 0..Len(data) :
       UsageRecord(w, object_size)
  \/ \E w \in 1..vm.workers : UsageDrop(w)

SpecScale == InitScale /\ [][NextScale]_vars

(* The command line of the iteration data: two transports, one worker. *)
IterInput ==
  [transports |-> <<kTransportJson, kTransportGrpc>>, workers |-> 1,
   iterations |-> MaxWork]

(* One worker, with every list of object sizes up to MaxSizes sizes. *)
InitIter ==
  /\ MainInit({IterInput})
  /\ HistInit0
  /\ UploadInit0
  /\ UsageInit0
  /\ object_sizes \in ObjectSizeLists
  /\ it_pc = "buffer"
  /\ it_i = 0
  /\ it_op = 0
  /\ picked = NoPick
  /\ uses = <<>>

NextIter ==
  \/ MainData
  \/ IterUpload
  \/ IterDownload
  \/ IterDelete
  \/ IterReturn

SpecIter == InitIter /\ [][NextIter]_vars

(* A thread that is inside an uploader keeps executing it. *)
SpecUploadFair == SpecUpload /\ WF_vars(NextUpload)

----------------------------------------------------------------------------
(* Reading a worker's log.                                                 *)

Positions(w, e) == {p \in DOMAIN log[w] : log[w][p] = e}
Happened(w, e) == Positions(w, e) /= {}
Calls(w) == SelectSeq(log[w], LAMBDA e : e.ev = "Call")
Records(w) == SelectSeq(log[w], LAMBDA e : e.ev = "Record")
ReadCalls(w) ==
  SelectSeq(log[w], LAMBDA e : e.ev = "Call" /\ e.on \notin {"upload", "DeleteObject"})
FailedCalls(w) == {p \in DOMAIN log[w] : log[w][p].ev = "Call" /\ log[w][p].arg = "error"}
IsPrefix(s, r) == Len(s) <= Len(r) /\ \A k \in 1..Len(s) : s[k] = r[k]

(* The worker is back at the loop head and the log is that of the          *)
(* iteration it has just left.                                             *)
IterationOver(w) == pc[w] = "loop" /\ log[w] /= <<>>

Spawned == {w \in Threads : pc[w] /= "unspawned"}
UnknownGiven == \E k \in DOMAIN vm.transports : ~KnownTransport(vm.transports[k])

----------------------------------------------------------------------------
(* C1: once a download of an iteration has returned an error status, the   *)
(* worker issues no further storage call in that iteration: no later       *)
(* download and no DeleteObject.                                           *)
C1_FailedDownloadAbortsIteration ==
  \A w \in Threads : \A p \in FailedCalls(w) :
    log[w][p].on \in {"READ[0]", "READ[1]", "READ[2]"} =>
      \A q \in DOMAIN log[w] : q > p => log[w][q].ev /= "Call"

(* C2: an iteration whose upload returned an error status is over at once: *)
(* the upload is its only storage call, nothing is recorded, and the       *)
(* upload span got the error status and then was ended, each exactly once. *)
C2_FailedUploadEndsIteration ==
  \A w \in Threads :
    Happened(w, Call("upload", FALSE)) =>
      /\ pc[w] = "loop"
      /\ i[w] = started[w]
      /\ Calls(w) = <<Call("upload", FALSE)>>
      /\ Records(w) = <<>>
      /\ Cardinality(Positions(w, SetStatus("ssb::upload"))) = 1
      /\ Cardinality(Positions(w, End("ssb::upload"))) = 1
      /\ \A p \in Positions(w, SetStatus("ssb::upload")) :
           \A q \in Positions(w, End("ssb::upload")) : p < q

C2_Witness ==
  \E w \in Threads :
    /\ Happened(w, Call("upload", FALSE))
    /\ i[w] = 1
    /\ cfg.iterations = 2

(* The calls and the samples of an iteration without a failure. *)
C3_SuccessCalls ==
  <<Call("upload", TRUE), Call("READ[0]", TRUE), Call("READ[1]", TRUE),
    Call("READ[2]", TRUE), Call("DeleteObject", TRUE)>>

C3_SuccessRecords ==
  <<Record("ssb::upload", "latency"), Record("ssb::upload", "cpu"),
    Record("ssb::upload", "memory"),
    Record("READ[0]", "latency"), Record("READ[0]", "cpu"),
    Record("READ[0]", "memory"),
    Record("READ[1]", "latency"), Record("READ[1]", "cpu"),
    Record("READ[1]", "memory"),
    Record("READ[2]", "latency"), Record("READ[2]", "cpu"),
    Record("READ[2]", "memory")>>

(* C3: in an iteration whose storage calls all succeed the calls are one   *)
(* upload, READ[0], READ[1], READ[2] and one DeleteObject, in that order,  *)
(* and the samples are a latency, cpu and memory sample for the upload and *)
(* for each read, and none for the delete.                                 *)
C3_SuccessfulIteration ==
  \A w \in Threads :
    FailedCalls(w) = {} =>
      /\ IsPrefix(Calls(w), C3_SuccessCalls)
      /\ IsPrefix(Records(w), C3_SuccessRecords)
      /\ Len(Records(w)) = 3 * Len(SelectSeq(Calls(w), LAMBDA e : e.on /= "DeleteObject"))
      /\ IterationOver(w) =>
           Calls(w) = C3_SuccessCalls /\ Records(w) = C3_SuccessRecords

C3_Witness ==
  \E w \in Threads :
    IterationOver(w) /\ FailedCalls(w) = {} /\ Len(Calls(w)) = 5

(* C4: after a successful upload the iteration downloads READ[0], READ[1]  *)
(* and READ[2], each once and in that order, and the span of one download  *)
(* is ended before the span of the next one is started.                    *)
C4_ThreeSequentialDownloads ==
  \A w \in Threads :
    Happened(w, Call("upload", TRUE)) =>
      LET reads == ReadCalls(w) IN
      /\ Len(reads) <= 3
      /\ \A k \in 1..Len(reads) : reads[k].on = <<"READ[0]", "READ[1]", "READ[2]">>[k]
      /\ IterationOver(w) => Len(reads) = 3
      /\ \A k \in 1..2 :
           \A q \in Positions(w, StartSpan(<<"READ[0]", "READ[1]", "READ[2]">>[k + 1])) :
             \E p \in Positions(w, End(<<"READ[0]", "READ[1]", "READ[2]">>[k])) : p < q

C4_Witness ==
  \E w \in Threads :
    /\ IterationOver(w)
    /\ Happened(w, Call("upload", TRUE))
    /\ Happened(w, Call("READ[0]", FALSE))
    /\ Happened(w, Call("READ[2]", TRUE))

(* C5: whenever DeleteObject is called, the iteration span has been ended  *)
(* before the call.                                                        *)
C5_DeleteAfterIterationSpanEnd ==
  \A w \in Threads :
    \A q \in DOMAIN log[w] :
      (log[w][q].ev = "Call" /\ log[w][q].on = "DeleteObject") =>
        \E p \in Positions(w, End("ssb::iteration")) : p < q

(* C6: a worker never enters more than cfg.iterations iterations, it is at *)
(* the loop head after as many ++i as iterations entered, and it returns   *)
(* only when it has entered exactly cfg.iterations of them.                *)
C6_ExactlyNIterations ==
  \A w \in Spawned :
    /\ started[w] <= vm.iterations
    /\ pc[w] \in {"loop", "done"} => i[w] = started[w]
    /\ pc[w] \in {"download", "delete"} => i[w] + 1 = started[w]
    /\ pc[w] = "done" => started[w] = vm.iterations

C6_Witness ==
  \E w \in Threads :
    /\ pc[w] = "loop"
    /\ vm.iterations = 2
    /\ started[w] = vm.iterations
    /\ Happened(w, Call("upload", FALSE))

(* C7: main spawns threads 1..workers and no other, and it has returned    *)
(* EXIT_SUCCESS only if all `workers` threads were spawned and each of     *)
(* them has returned after entering all its iterations.                    *)
C7_ExitAfterAllWorkers ==
  /\ Spawned = 1..main_i
  /\ main_i <= vm.workers
  /\ exit_status = "EXIT_SUCCESS" =>
       /\ Cardinality(Spawned) = vm.workers
       /\ \A w \in Spawned : pc[w] = "done" /\ started[w] = vm.iterations

C7_Witness ==
  /\ exit_status = "EXIT_SUCCESS"
  /\ vm.workers = 2
  /\ vm.iterations = 1

(* C8: with an unknown name in the transport list main never gets past the *)
(* configuration: no thread is spawned, no worker has done anything, and   *)
(* the only way out is EXIT_FAILURE.                                       *)
C8_UnknownTransportFails ==
  UnknownGiven =>
    /\ main_pc \in {"config", "exit"}
    /\ exit_status \in {"running", "EXIT_FAILURE"}
    /\ main_pc = "exit" => exit_status = "EXIT_FAILURE"
    /\ Spawned = {}
    /\ workers = <<>>
    /\ \A w \in Threads : log[w] = <<>> /\ started[w] = 0

C8_Witness ==
  /\ Len(vm.transports) = 2
  /\ KnownTransport(vm.transports[1])
  /\ ~KnownTransport(vm.transports[2])
  /\ vm.workers >= 1
  /\ vm.iterations >= 1
  /\ main_pc = "exit"
  /\ exit_status = "EXIT_FAILURE"

----------------------------------------------------------------------------
StrictlyIncreasing(s) == \A k \in 1..(Len(s) - 1) : Less(s[k], s[k + 1])
Last(s) == s[Len(s)]
LatencyReturned == views.latency /= <<>>

(* C9 as stated: the largest latency boundary is at least 300 s. *)
C9_LatencyReaches300s ==
  LatencyReturned => LessEq(seconds(300), Last(views.latency))

(* C9 as amended: the latency boundaries stop below 300 s.  The second     *)
(* loop ends at its 116th test, on the boundary 307.2 s, which is not      *)
(* emitted; the largest boundary emitted is 286.72 s and none exceeds      *)
(* 300 s.                                                                  *)
C9_LatencyStopsBelow300s ==
  /\ (hist_pc = "latency_second" /\ ~LatencyContinue(hist_i, boundary)) =>
       hist_i = 115 /\ boundary = ms(307200)
  /\ LatencyReturned =>
       /\ Last(views.latency) = ms(286720)
       /\ Less(Last(views.latency), seconds(300))
       /\ \A k \in DOMAIN views.latency :
            LessEq(views.latency[k], Last(views.latency))

C9_Witness == LatencyReturned /\ hist_pc = "cpu" /\ Len(views.latency) = 165

(* C10: each boundary sequence, while it is built and once it is returned, *)
(* has at most 200 elements and is strictly increasing; the latency        *)
(* sequence passes from 98 ms to 100 ms where its two loops join.          *)
C10_BoundedAndIncreasing ==
  /\ Len(boundaries) <= 200
  /\ StrictlyIncreasing(boundaries)
  /\ \A h \in {"latency", "cpu", "memory"} :
       Len(views[h]) <= 200 /\ StrictlyIncreasing(views[h])
  /\ LatencyReturned =>
       views.latency[50] = ms(98) /\ views.latency[51] = ms(100)

C10_Witness ==
  /\ hist_pc = "done"
  /\ Len(views.latency) = 165
  /\ Len(views.cpu) = 200
  /\ Len(views.memory) = 200
  /\ Less(views.latency[50], views.latency[51])

----------------------------------------------------------------------------
(* The gap between boundary k and boundary k + 1 of s, in units of 1/den,  *)
(* for boundaries kept with that den.                                      *)
Gap(s, k) == s[k + 1].num - s[k].num

(* C11: the memory generator returns 200 boundaries, the first 0, and the  *)
(* gap after boundary i (counted from 0) is (1/16) * 2^floor(i/16), for    *)
(* every i in 0..198.                                                      *)
C11_MemorySchedule ==
  views.memory /= <<>> =>
    /\ Len(views.memory) = 200
    /\ views.memory[1] = Frac(0, 16)
    /\ \A n \in 0..198 :
         /\ views.memory[n + 1].den = 16
         /\ Gap(views.memory, n + 1) = 2 ^ (n \div 16)

(* C12: the CPU generator returns 200 boundaries, the first 0, and the gap *)
(* after boundary i (counted from 0) is (1/8) * 2^floor(i/32), for every i *)
(* in 0..198.                                                              *)
C12_CpuSchedule ==
  /\ hist_pc = "cpu" =>
       \A k \in 1..(Len(boundaries) - 1) :
         Gap(boundaries, k) = 2 ^ ((k - 1) \div 32)
  /\ views.cpu /= <<>> =>
       /\ Len(views.cpu) = 200
       /\ views.cpu[1] = Frac(0, 8)
       /\ \A k \in DOMAIN views.cpu : views.cpu[k].den = 8
       /\ \A n \in 0..198 : Gap(views.cpu, n + 1) = 2 ^ (n \div 32)

C12_Witness ==
  /\ Len(views.cpu) = 200
  /\ Gap(views.cpu, 32) = 1
  /\ Gap(views.cpu, 33) = 2
  /\ Gap(views.cpu, 199) = 64

(* C13: the latency generator returns 0, 2, ..., 98 ms, then boundaries    *)
(* from 100 ms on whose gap is 10 ms doubled every 10 boundaries, so that  *)
(* boundary 10k of the second loop is 100 * 2^k ms; the second loop ends   *)
(* at 150 boundaries or at the first boundary above 300 s, which is not    *)
(* emitted, so no boundary returned exceeds 300 s.                         *)
C13_LatencySchedule ==
  /\ (hist_pc = "latency_second" /\ ~LatencyContinue(hist_i, boundary)) =>
       hist_i = 150 \/ Less(seconds(300), boundary)
  /\ hist_pc = "latency_second" =>
       /\ Len(boundaries) = 50 + hist_i
       /\ hist_i <= 150
  /\ LatencyReturned =>
       LET s == views.latency
           second == Len(s) - 50
       IN /\ second \in 1..150
          /\ \A k \in 1..50 : s[k] = ms(2 * (k - 1))
          /\ s[51] = ms(100)
          /\ \A k \in DOMAIN s : s[k].den = 1000 /\ LessEq(s[k], seconds(300))
          /\ \A j \in 0..(second - 2) : Gap(s, 51 + j) = 10 * 2 ^ (j \div 10)
          /\ \A j \in 0..(second - 1) :
               j % 10 = 0 => s[51 + j] = ms(100 * 2 ^ (j \div 10))

C13_Witness ==
  /\ LatencyReturned
  /\ views.latency[50] = ms(98)
  /\ views.latency[161] = ms(204800)
  /\ Len(views.latency) < 200

----------------------------------------------------------------------------
(* Upload strategies. *)

RECURSIVE SumSeq(_)
SumSeq(s) == IF s = <<>> THEN 0 ELSE s[1] + SumSeq(Tail(s))

Returned(uploader) == up_pc = "returned" /\ up_args.uploader = uploader

(* C14: insert_object, given an object size strictly greater than the      *)
(* buffer length, returns an invalid-argument status without invoking the  *)
(* transport; given an object size from 0 to the buffer length it calls    *)
(* client.InsertObject exactly once, with exactly object_size bytes, and   *)
(* returns that call's status.  (A negative size, which is no object size, *)
(* compares as an unsigned value above the buffer length and is refused    *)
(* as well.)                                                               *)
C14_InsertObject ==
  Returned(kSingleShot) =>
    /\ up_args.object_size > up_args.size =>
         status = "kInvalidArgument" /\ inserts = <<>>
    /\ up_args.object_size \in 0..up_args.size =>
         inserts = <<up_args.object_size>> /\ status \in {"ok", "error"}
    /\ up_args.object_size < 0 =>
         status = "kInvalidArgument" /\ inserts = <<>>
    /\ os = NoStream

C14_Witness ==
  /\ Returned(kSingleShot)
  /\ up_args.object_size = up_args.size
  /\ up_args.size > 1
  /\ inserts = <<up_args.size>>

C15_Safety ==
  up_args.uploader = kResumable /\ up_pc \in {"writing", "returned"} =>
    LET size == IF up_args.object_size < 0 THEN 0 ELSE up_args.object_size IN
      /\ \A k \in 1..Len(os.writes) : os.writes[k] \in 1..up_args.size
      /\ SumSeq(os.writes) = offset
      /\ offset <= size
      /\ Len(os.writes) <= size
      /\ up_args.object_size = 0 => os.writes = <<>>
      /\ os.bad => os.bad_at = Len(os.writes)
      /\ up_pc = "writing" => os.closed = 0 /\ ENABLED (WriteChunk \/ WriteClose)
      /\ up_pc = "returned" =>
           /\ os.closed = 1
           /\ status = os.status
           /\ ~os.bad => offset = size
      /\ inserts = <<>>

(* C15: write_object, for every object size >= 0 and every buffer of       *)
(* length >= 1, terminates; while the stream is not bad it writes chunks,  *)
(* each of at most the buffer length, whose total is exactly object_size   *)
(* (no chunk at all when object_size = 0); it writes nothing more once the *)
(* stream reports bad; it closes the stream exactly once and returns the   *)
(* stream's final status.                                                  *)
C15_WriteObject == [](C15_Safety) /\ <>(up_pc = "returned")

C15_Witness ==
  /\ Returned(kResumable)
  /\ up_args.object_size = 3 /\ up_args.size = 2
  /\ os.writes = <<2, 1>>
  /\ ~os.bad /\ os.closed = 1 /\ status = "ok"

----------------------------------------------------------------------------
(* Resource usage. *)

(* C16: usage::record reports the elapsed time unscaled in every case (as  *)
(* seconds), and reports the CPU delta and the memory delta unscaled when  *)
(* object_size = 0 and divided by object_size when object_size > 0.        *)
C16_RecordScaling ==
  \A w \in Threads :
    LET s == sample[w] IN
      s.recorded =>
        /\ s.latency = Frac(s.elapsed, 1000000000)
        /\ s.object_size = 0 =>
             /\ s.cpu = Frac(s.cpu_usage, 1)
             /\ s.memory = Frac(s.mem_usage, 1)
        /\ s.object_size > 0 =>
             /\ s.cpu.den > 0 /\ s.memory.den > 0
             /\ s.cpu.num * s.object_size = s.cpu_usage * s.cpu.den
             /\ s.memory.num * s.object_size = s.mem_usage * s.memory.den

C16_Witness ==
  /\ sample[1].recorded
  /\ sample[1].object_size = 2
  /\ sample[1].elapsed = 1 /\ sample[1].cpu_usage = 1
  /\ sample[1].mem_usage = 2
  /\ sample[1].memory = Frac(2, 2)

(* What a thread alone writes: its `usage t` and the sample it records. *)
Local(w) == <<t[w].alive, t[w].mem_, t[w].clock_, t[w].cpu_, sample[w]>>

C17_Step ==
  /\ allocated_bytes' >= allocated_bytes
  /\ UNCHANGED <<vm, cfg, data>>
  /\ Cardinality({w \in Threads : Local(w)' /= Local(w)}) <= 1

C17_State ==
  \A w \in Threads :
    /\ t[w].alive => /\ t[w].mem_ <= allocated_bytes
                     /\ allocated_bytes - t[w].mem_ = t[w].since
    /\ sample[w].recorded =>
         /\ sample[w].mem_usage = sample[w].since
         /\ sample[w].mem_usage >= sample[w].own
         /\ sample[w].own >= 0
         /\ sample[w].mem_usage >= 0

(* C17: with any number of workers and any interleaving, allocated_bytes   *)
(* never decreases and is never reset; a step of a worker changes neither  *)
(* the configuration nor the shared data buffer, and besides the counter   *)
(* it writes the state of that worker only; the memory delta an operation  *)
(* records is the sum of the bytes every thread allocated between its two  *)
(* snapshots, so it is >= 0 and >= the bytes the measuring worker          *)
(* allocated itself.                                                       *)
C17_AllocationCounter == [][C17_Step]_vars /\ []C17_State

C17_Witness ==
  /\ sample[1].recorded
  /\ sample[1].own = 1
  /\ sample[1].mem_usage = 2
  /\ t[2].alive /\ t[2].own = 1

----------------------------------------------------------------------------
(* Cleanup, retries and ordering. *)

CallsOn(w, name) == SelectSeq(log[w], LAMBDA e : e.ev = "Call" /\ e.on = name)
After(w, p) == SubSeq(log[w], p + 1, Len(log[w]))

(* C18: a failed DeleteObject call is ignored: after it no span gets an    *)
(* error status and nothing is recorded, the iteration span is ended, and  *)
(* the worker is at the loop head with its index advanced, as after a      *)
(* successful delete.                                                      *)
C18_FailedDeleteIgnored ==
  \A w \in Threads :
    \A p \in Positions(w, Call("DeleteObject", FALSE)) :
      /\ After(w, p) = <<End("ssb::iteration")>>
      /\ Cardinality(Positions(w, End("ssb::iteration"))) = 1
      /\ pc[w] = "loop"
      /\ i[w] = started[w]
      /\ ENABLED (Upload(w) \/ WorkerReturn(w))

C18_Witness ==
  \E w \in Threads :
    /\ Happened(w, Call("DeleteObject", FALSE))
    /\ Happened(w, End("ssb::iteration"))
    /\ FailedCalls(w) = Positions(w, Call("DeleteObject", FALSE))
    /\ i[w] = 1 /\ cfg.iterations = 2
    /\ ENABLED Upload(w)

(* C19: no storage operation is retried: in every iteration, whatever      *)
(* fails, the uploader is called exactly once, each of READ[0], READ[1]    *)
(* and READ[2] at most once, and DeleteObject at most once.                *)
C19_NoRetry ==
  \A w \in Threads :
    log[w] /= <<>> =>
      /\ Len(CallsOn(w, "upload")) = 1
      /\ \A k \in 1..Len(ReadOps) : Len(CallsOn(w, ReadOps[k])) <= 1
      /\ Len(CallsOn(w, "DeleteObject")) <= 1
      /\ Len(Calls(w)) <= 5

C19_Witness ==
  \E w \in Threads :
    /\ IterationOver(w)
    /\ Happened(w, Call("READ[0]", FALSE))
    /\ Happened(w, Call("READ[2]", FALSE))
    /\ Happened(w, Call("DeleteObject", FALSE))
    /\ Len(Calls(w)) = 5

(* The calls of a thread are blocking, one at a time: a thread that can    *)
(* take its next step can take it whatever the other threads are doing.    *)
C20_NoWaiting ==
  \A w \in Threads :
    /\ pc[w] = "loop" => ENABLED (Upload(w) \/ WorkerReturn(w))
    /\ pc[w] = "download" => ENABLED Download(w)
    /\ pc[w] = "delete" => ENABLED DeleteObject(w)

C20_InOrder ==
  \A w \in Threads :
    /\ started[w] - i[w] = (IF pc[w] \in {"download", "delete"} THEN 1 ELSE 0)
    /\ \A p \in DOMAIN log[w] :
         log[w][p].ev = "Call" =>
           /\ log[w][p].on \notin {"upload", "DeleteObject"} =>
                \E q \in 1..(p - 1) : log[w][q] = Call("upload", TRUE)
           /\ log[w][p].on = "DeleteObject" =>
                /\ \E q \in 1..(p - 1) :
                     log[w][q].ev = "Call" /\ log[w][q].on = ReadOps[Len(ReadOps)]
                /\ \A q \in DOMAIN log[w] :
                     log[w][q].ev = "Call" /\ q /= p => q < p

C20_Step ==
  \A w \in Threads :
    started[w]' /= started[w] =>
      /\ pc[w] = "loop"
      /\ i[w] = started[w]
      /\ started[w]' = started[w] + 1

(* C20: within one worker the iterations are strictly sequential: a new    *)
(* iteration is entered only when the one before is over, a read is issued *)
(* only after the iteration's upload returned success, and the delete only *)
(* after the last read returned and after every other call; across workers *)
(* no order is enforced: a worker's next call never waits for another      *)
(* worker, so both orders of any two operations of two workers occur.      *)
C20_OrderWithinWorker == [][C20_Step]_vars /\ [](C20_InOrder /\ C20_NoWaiting)

C20_Witness ==
  /\ pc[1] = "download" /\ op[1] = 1
  /\ pc[2] = "delete"
  /\ started[1] = 1 /\ started[2] = 1

----------------------------------------------------------------------------
(* Metrics and spans of the sub-operations. *)

SpanOf(on) == IF on = "upload" THEN "ssb::upload" ELSE on
On(w, span) == SelectSeq(log[w], LAMBDA e : e.on = span /\ e.ev /= "Call")
Measured(w) ==
  {p \in DOMAIN log[w] : log[w][p].ev = "Call" /\ log[w][p].on /= "DeleteObject"}

(* C21: for every upload or download, if the call succeeds a latency, a    *)
(* cpu and a memory sample are recorded for it, once each, and then its    *)
(* span is ended; if it fails nothing is recorded, its span gets the error *)
(* status and is ended; either way the span is ended exactly once, and the *)
(* samples of an iteration are three for each successful upload or         *)
(* download.                                                               *)
C21_RecordOrError ==
  \A w \in Threads :
    /\ \A p \in Measured(w) :
         LET span == SpanOf(log[w][p].on) IN
           /\ log[w][p - 1] = StartSpan(span)
           /\ IF log[w][p].arg = "ok"
              THEN /\ On(w, span) =
                        <<StartSpan(span), Record(span, "latency"),
                          Record(span, "cpu"), Record(span, "memory"),
                          End(span)>>
                   /\ SubSeq(log[w], p + 1, p + 4) =
                        <<Record(span, "latency"), Record(span, "cpu"),
                          Record(span, "memory"), End(span)>>
              ELSE /\ On(w, span) =
                        <<StartSpan(span), SetStatus(span), End(span)>>
                   /\ SubSeq(log[w], p + 1, p + 2) =
                        <<SetStatus(span), End(span)>>
    /\ Len(Records(w)) =
         3 * Cardinality({p \in Measured(w) : log[w][p].arg = "ok"})

C21_Witness ==
  \E w \in Threads :
    /\ IterationOver(w)
    /\ Happened(w, Call("upload", TRUE))
    /\ Happened(w, Call("READ[0]", TRUE))
    /\ Happened(w, Call("READ[1]", FALSE))
    /\ Happened(w, Call("READ[2]", TRUE))
    /\ Len(Records(w)) = 9

----------------------------------------------------------------------------
(* The data of an iteration. *)

RangeOf(s) == {s[k] : k \in DOMAIN s}
UsesOf(kind) == SelectSeq(uses, LAMBDA u : u.kind = kind)
Started == it_pc \notin {"buffer", "exit"}

(* C22: with a non-empty object-size list, client map and uploader map,    *)
(* the object size an iteration picks is an element of cfg.object_sizes,   *)
(* its client is a key of cfg.clients and its uploader a key of the        *)
(* uploader map: pick_one reads inside the collection.                     *)
C22_PicksFromConfig ==
  uses /= <<>> =>
    /\ picked.object_size \in RangeOf(object_sizes)
    /\ picked.client \in cfg.clients
    /\ picked.uploader \in {kSingleShot, kResumable}

C22_Witness ==
  /\ uses /= <<>>
  /\ Len(object_sizes) = 2
  /\ object_sizes[1] /= object_sizes[2]
  /\ picked.object_size = object_sizes[2]
  /\ picked.client = kTransportJson
  /\ picked.uploader = kSingleShot
  /\ it_i = 1 /\ it_pc = "download"

C23_BufferHolds ==
  Started =>
    /\ \A k \in DOMAIN object_sizes : object_sizes[k] <= Len(data)
    /\ Len(data) \in RangeOf(object_sizes)
    /\ \A k \in DOMAIN uses :
         uses[k].op = "upload" =>
           /\ picked.object_size >= 0 =>
                uses[k].status /= "kInvalidArgument"
           /\ picked.object_size < 0 /\ picked.uploader = kSingleShot =>
                uses[k].status = "kInvalidArgument"

C23_Step == Started => Started' /\ data' = data

(* C23: once main has built the buffer, its length is >= every configured  *)
(* object size: it is the largest of them, and it never changes; so in a   *)
(* run the size check of insert_object never rejects a picked object size  *)
(* (of 0 or more: a negative configured size, which is no object size, is  *)
(* refused by that comparison whatever the buffer).                        *)
C23_BufferFitsEverySize == [][C23_Step]_vars /\ []C23_BufferHolds

C23_Witness ==
  /\ Len(object_sizes) = 2
  /\ object_sizes[1] < object_sizes[2]
  /\ object_sizes[1] > 0
  /\ picked.uploader = kSingleShot
  /\ picked.object_size = Len(data)
  /\ uses[1].op = "upload" /\ uses[1].status = "ok"
  /\ it_i = 1

(* C24: the upload, every read and the delete of an iteration are made on  *)
(* the client, the bucket and the object name picked at the start of that  *)
(* iteration, and every sample of the iteration carries the name of that   *)
(* client's transport as its ssb.transport attribute.                      *)
C24_OneClientOneObject ==
  uses /= <<>> =>
    /\ uses[1].kind = "call" /\ uses[1].op = "upload"
    /\ \A k \in DOMAIN uses :
         IF uses[k].kind = "call"
         THEN /\ uses[k].transport = uses[1].transport
              /\ uses[k].bucket = uses[1].bucket
              /\ uses[k].object_name = uses[1].object_name
         ELSE uses[k].transport = uses[1].transport
    /\ uses[1].transport = picked.client
    /\ uses[1].bucket = bucket_name
    /\ uses[1].object_name = picked.object_name
    /\ picked.object_name = IF it_pc = "loop" \/ it_pc = "done"
                            THEN it_i ELSE it_i + 1

C24_Witness ==
  /\ it_pc = "loop" /\ it_i = 2
  /\ Len(UsesOf("call")) = 5
  /\ Len(UsesOf("sample")) = 4
  /\ picked.client = kTransportGrpc
  /\ uses[9].op = "DeleteObject" /\ uses[9].object_name = 2

----------------------------------------------------------------------------
(* C25: every iteration span a worker starts is ended by an explicit       *)
(* End() of that worker before it starts its next iteration or returns,    *)
(* whether all operations succeed, the upload fails or a download fails:   *)
(* at the loop head the iteration just left has one StartSpan and one End  *)
(* of ssb::iteration, the End after the StartSpan.                         *)
C25_IterationSpanEnded ==
  \A w \in Threads :
    IterationOver(w) =>
      /\ Cardinality(Positions(w, StartSpan("ssb::iteration"))) = 1
      /\ Cardinality(Positions(w, End("ssb::iteration"))) = 1
      /\ \A p \in Positions(w, StartSpan("ssb::iteration")) :
           \A q \in Positions(w, End("ssb::iteration")) : p < q

====
